---- MODULE Spec2Model ----
(***************************************************************************)
(* Model of sats/make_configs.py: the frequency parser, the band           *)
(* classifier, the active-satellite filter, the three mode groupings and   *)
(* the Gpredict module writer, together with the control flow of main().   *)
(*                                                                         *)
(* Text is a sequence of one-character strings.  A parsed number is the    *)
(* record [kind |-> "float", m, e] standing for m / 10^e (normalised), the *)
(* float nan is [kind |-> "nan"], a FrequencyRange is                      *)
(* [kind |-> "range", start, stop].                                        *)
(***************************************************************************)
EXTENDS Integers, Sequences, FiniteSets, TLC

VARIABLES
    pc,                 \* position in main(), or "call"/"return" of one function
    remote,             \* the two CSV tables behind the fixed URLs
    amsat_db,           \* primary table, frequency columns parsed once mapped
    satnogs_db,         \* secondary (liveness) table
    satnogs_alive_ids,  \* set(satnogs_db.sat_id.where(status == "alive"))
    active_db,          \* rows returned by get_active_satellites
    selected,           \* all_beacons, all_fm, all_digi
    files,              \* content of the files in GPREDICT_MODULE_DEST
    written,            \* names of the files opened for writing, in order
    responses,          \* status code of each of the two GETs, 0 before it
    log,                \* warnings logged
    arg,                \* argument of the function under call
    ret                 \* its outcome

vars == <<pc, remote, amsat_db, satnogs_db, satnogs_alive_ids, active_db,
          selected, files, written, responses, log, arg, ret>>

-----------------------------------------------------------------------------
(* Bounds of the model                                                     *)

MaxCellLen == 4
MaxFilterRows == 2
MaxSecRows == 2
MaxGroupRows == 1
MaxDedupRows == 4
MaxSaves == 2
MaxIds == 2

-----------------------------------------------------------------------------
(* Text helpers: str.partition, str.split, str.endswith, str.removesuffix  *)

Digits == <<"0", "1", "2", "3", "4", "5", "6", "7", "8", "9">>

IsDigit(c) == \E i \in 1..10 : Digits[i] = c

DigitVal(c) == (CHOOSE i \in 1..10 : Digits[i] = c) - 1

Contains(s, c) == \E i \in 1..Len(s) : s[i] = c

IndexOf(s, c) == CHOOSE i \in 1..Len(s) : s[i] = c /\ \A j \in 1..(i - 1) : s[j] # c

\* a, _sep, b = cell.partition(sep), for a cell that contains sep
Partition(s, c) ==
    LET i == IndexOf(s, c)
    IN  <<SubSeq(s, 1, i - 1), SubSeq(s, i + 1, Len(s))>>

RECURSIVE Split(_, _)
Split(s, c) ==
    IF Contains(s, c)
    THEN LET p == Partition(s, c) IN <<p[1]>> \o Split(p[2], c)
    ELSE <<s>>

EndsWith(s, c) == Len(s) > 0 /\ s[Len(s)] = c

RemoveSuffix(s, c) == IF EndsWith(s, c) THEN SubSeq(s, 1, Len(s) - 1) ELSE s

\* str.contains(needle): needle occurs as a contiguous substring
StrContains(s, needle) ==
    \E i \in 1..(Len(s) - Len(needle) + 1) :
        SubSeq(s, i, i + Len(needle) - 1) = needle

-----------------------------------------------------------------------------
(* Values                                                                  *)

\* the float nan: a missing cell of a table, and the parser's "missing"
NaN == [kind |-> "nan"]
ValueError == [kind |-> "ValueError"]

\* a Python str whose characters are s
Txt(s) == [kind |-> "str", s |-> s]

RECURSIVE Pow10(_)
Pow10(e) == IF e = 0 THEN 1 ELSE 10 * Pow10(e - 1)

RECURSIVE Norm(_, _)
Norm(m, e) ==
    IF e > 0 /\ m % 10 = 0 THEN Norm(m \div 10, e - 1)
    ELSE [kind |-> "float", m |-> m, e |-> e]

Num(m, e) == Norm(m, e)

FrequencyRange(start, stop) == [kind |-> "range", start |-> start, stop |-> stop]

\* str(cell): a missing cell holds the float nan, whose text is "nan"
Str(cell) == IF cell.kind = "str" THEN cell.s ELSE <<"n", "a", "n">>

RECURSIVE DigitsValue(_)
DigitsValue(s) ==
    IF Len(s) = 0 THEN 0
    ELSE 10 * DigitsValue(SubSeq(s, 1, Len(s) - 1)) + DigitVal(s[Len(s)])

AllDigits(s) == \A i \in 1..Len(s) : IsDigit(s[i])

\* float(text) for unsigned text: digits, at most one point, one digit at least
UnsignedFloat(s) ==
    IF s = <<"n", "a", "n">> THEN NaN
    ELSE IF Contains(s, ".")
    THEN LET p == Partition(s, ".")
         IN  IF AllDigits(p[1]) /\ AllDigits(p[2]) /\ Len(p[1]) + Len(p[2]) > 0
             THEN Num(DigitsValue(p[1] \o p[2]), Len(p[2]))
             ELSE ValueError
    ELSE IF AllDigits(s) /\ Len(s) > 0 THEN Num(DigitsValue(s), 0)
    ELSE ValueError

Negate(v) == IF v.kind = "float" THEN Num(0 - v.m, v.e) ELSE v

\* float(x): x is a str, or the float nan handed over by next(..., nan)
Float(x) ==
    IF x.kind = "nan" THEN NaN
    ELSE IF Len(x.s) > 0 /\ x.s[1] = "-" THEN Negate(UnsignedFloat(Tail(x.s)))
    ELSE UnsignedFloat(x.s)

-----------------------------------------------------------------------------
(* active_frequency                                                        *)

LastStarred(options) ==
    IF \E i \in 1..Len(options) : EndsWith(options[i], "*")
    THEN LET i == CHOOSE k \in 1..Len(options) :
                      /\ EndsWith(options[k], "*")
                      /\ \A j \in (k + 1)..Len(options) : ~EndsWith(options[j], "*")
         IN  Txt(RemoveSuffix(options[i], "*"))
    ELSE NaN

\* next((o.removesuffix("*") for o in options if o.endswith("*")), nan)
FirstStarred(options) ==
    IF \E i \in 1..Len(options) : EndsWith(options[i], "*")
    THEN LET i == CHOOSE k \in 1..Len(options) :
                      /\ EndsWith(options[k], "*")
                      /\ \A j \in 1..(k - 1) : ~EndsWith(options[j], "*")
         IN  Txt(RemoveSuffix(options[i], "*"))
    ELSE NaN

\* outcome of a call: the value returned, the warnings logged, the exception
Returned(v) == [value |-> v, warned |-> <<>>, raised |-> "none"]
Warned(what) == [value |-> NaN, warned |-> <<what>>, raised |-> "none"]
Raised(exc) == [value |-> [kind |-> "none"], warned |-> <<>>, raised |-> exc]

TryFloatUncaught(selection) ==
    LET v == Float(selection)
    IN  IF v = ValueError THEN Raised("ValueError") ELSE Returned(v)

\* try: return float(selection) / except ValueError: warn, return nan
TryFloat(selection) ==
    LET v == Float(selection)
    IN  IF v = ValueError THEN Warned(selection) ELSE Returned(v)

\* try: return FrequencyRange(float(a), float(b)) / except ValueError
TryRange(cell) ==
    LET p == Partition(cell, "-")
        a == Float(Txt(p[1]))
        b == Float(Txt(p[2]))
    IN  IF a = ValueError \/ b = ValueError THEN Warned(Txt(cell))
        ELSE Returned(FrequencyRange(a, b))

Selection(options) ==
    IF Len(options) = 1 THEN Txt(RemoveSuffix(options[1], "*"))
    ELSE FirstStarred(options)

active_frequency(c) ==
    LET cell == Str(c)
    IN  IF Contains(cell, "-") THEN TryRange(cell)
        ELSE TryFloat(Selection(Split(cell, "/")))

-----------------------------------------------------------------------------
(* Band classifier                                                         *)

\* a <= b on floats; any comparison with nan is false
FloatLe(a, b) ==
    /\ a.kind = "float" /\ b.kind = "float"
    /\ a.m * Pow10(b.e) <= b.m * Pow10(a.e)

RangeLeStartOnly(self, freq) == FloatLe(self.start, freq)

\* FrequencyRange.__le__(self, freq)
RangeLe(self, freq) == FloatLe(self.start, freq) /\ FloatLe(self.stop, freq)

\* FrequencyRange.__ge__(self, freq)
RangeGe(self, freq) == FloatLe(freq, self.start) /\ FloatLe(freq, self.stop)

\* n <= freq resolves to freq.__ge__(n) for a range, elementwise in a column
LowerOk(n, freq) ==
    IF freq.kind = "range" THEN RangeGe(freq, Num(n, 0)) ELSE FloatLe(Num(n, 0), freq)

UpperOk(freq, n) ==
    IF freq.kind = "range" THEN RangeLe(freq, Num(n, 0)) ELSE FloatLe(freq, Num(n, 0))

is_2m(freq) == LowerOk(144, freq) /\ UpperOk(freq, 148)

is_70cm(freq) == LowerOk(420, freq) /\ UpperOk(freq, 450)

is_vu(freq) == is_2m(freq) \/ is_70cm(freq)

-----------------------------------------------------------------------------
(* Tables.  df[mask], the rows where a mask holds in table order, is       *)
(* SelectSeq.                                                              *)

Id(n) == [kind |-> "id", n |-> n]

FREQUENCY_COLUMNS == <<"uplink", "downlink", "beacon">>

NotNa(v) == v.kind # "nan"

\* Series.isin(values): membership, a missing cell matching a nan in values
IsIn(v, values) == v \in values

\* Series.where(cond): the cell where cond holds, nan elsewhere
Where(v, cond) == IF cond THEN v ELSE NaN

\* amsat_db[c] = amsat_db[c].map(active_frequency), for one column c
MapColumn(db, c) == [i \in 1..Len(db) |-> active_frequency(db[i][c])]

ColumnValues(db, c) ==
    LET o == MapColumn(db, c)
    IN  [i \in 1..Len(db) |-> [db[i] EXCEPT ![c] = o[i].value]]

RECURSIVE ColumnWarnings(_, _)
ColumnWarnings(outcomes, i) ==
    IF i > Len(outcomes) THEN <<>>
    ELSE outcomes[i].warned \o ColumnWarnings(outcomes, i + 1)

ColumnRaised(db, c) == \E i \in 1..Len(db) : MapColumn(db, c)[i].raised # "none"

\* the loop over FREQUENCY_COLUMNS: the table after it, the warnings it logs
RECURSIVE MapColumns(_, _)
MapColumns(db, k) ==
    IF k > Len(FREQUENCY_COLUMNS) THEN db
    ELSE MapColumns(ColumnValues(db, FREQUENCY_COLUMNS[k]), k + 1)

RECURSIVE MapWarnings(_, _)
MapWarnings(db, k) ==
    IF k > Len(FREQUENCY_COLUMNS) THEN <<>>
    ELSE ColumnWarnings(MapColumn(db, FREQUENCY_COLUMNS[k]), 1) \o MapWarnings(db, k + 1)

MapRaises(db) == \E k \in 1..Len(FREQUENCY_COLUMNS) : ColumnRaised(db, FREQUENCY_COLUMNS[k])

\* set(satnogs_db.sat_id.where(satnogs_db.status == "alive"))
AliveIds(db) == {Where(db[i].sat_id, db[i].status = "alive") : i \in 1..Len(db)}

\* amsat_db[FREQUENCY_COLUMNS].notna().any(axis="columns"), for one row
AnyFrequencyListed(r) ==
    \E k \in 1..Len(FREQUENCY_COLUMNS) : NotNa(r[FREQUENCY_COLUMNS[k]])

Retained(r, alive) ==
    /\ r.status \in {"active", "operational"}
    /\ IsIn(r.satnogs_id, alive)
    /\ AnyFrequencyListed(r)

-----------------------------------------------------------------------------
(* Mode grouper                                                            *)

FM == <<"F", "M">>
APRS == <<"A", "P", "R", "S">>
Digipeater == <<"D", "i", "g", "i", "p", "e", "a", "t", "e", "r">>

\* Series.str.contains(needle).fillna(False), for one cell
ModeContains(mode, needle) ==
    IF mode.kind = "str" THEN StrContains(mode.s, needle) ELSE FALSE

IsBeaconRow(r) == is_vu(r.beacon)

IsFmRow(r) == ModeContains(r.mode, FM)

IsDigiRowAprsOnly(r) == ModeContains(r.mode, APRS)

IsDigiRow(r) == ModeContains(r.mode, APRS) \/ ModeContains(r.mode, Digipeater)

NoradIds(db) == [i \in 1..Len(db) |-> db[i].norad_id]

DropDuplicatesKeepAll(ids) == ids

\* Series.drop_duplicates(): the first occurrence of each value stays
RECURSIVE DropDuplicates(_)
DropDuplicates(ids) ==
    IF Len(ids) = 0 THEN <<>>
    ELSE LET front == DropDuplicates(SubSeq(ids, 1, Len(ids) - 1))
             last == ids[Len(ids)]
         IN  IF \E i \in 1..Len(front) : front[i] = last THEN front
             ELSE Append(front, last)

\* Series.dropna()
RECURSIVE DropNa(_)
DropNa(ids) ==
    IF Len(ids) = 0 THEN <<>>
    ELSE (IF NotNa(Head(ids)) THEN <<Head(ids)>> ELSE <<>>) \o DropNa(Tail(ids))

\* db.norad_id.drop_duplicates().dropna()
ModuleIds(db) == DropNa(DropDuplicates(NoradIds(db)))

-----------------------------------------------------------------------------
(* Module writer                                                           *)

DEFAULT_QTH == <<"Home.qth">>

\* str(int(i))
RECURSIVE IntToStr(_)
IntToStr(n) ==
    IF n < 10 THEN <<Digits[n + 1]>>
    ELSE IntToStr(n \div 10) \o <<Digits[(n % 10) + 1]>>

\* ";".join(str(int(i)) for i in satellite_ids)
RECURSIVE Join(_)
Join(ids) ==
    IF Len(ids) = 0 THEN <<>>
    ELSE IF Len(ids) = 1 THEN IntToStr(ids[1].n)
    ELSE IntToStr(ids[1].n) \o <<";">> \o Join(Tail(ids))

make_gpredict_module(satellite_ids) ==
    <<"[GLOBAL]", "\n", "SATELLITES=">> \o Join(satellite_ids)
        \o <<"\n", "QTHFILE=">> \o DEFAULT_QTH \o <<"\n">>

Absent == [exists |-> FALSE]
File(text) == [exists |-> TRUE, text |-> text]

FileName(name) == name \o ".mod"

OpenAppend(fs, name) ==
    IF fs[FileName(name)].exists THEN fs[FileName(name)].text ELSE <<>>

\* (dest_dir / f"{name}.mod").open("w+"): created if absent, emptied if present
OpenTruncate(fs, name) == <<>>

\* save_gpredict_module: the files of dest_dir after the call
save_gpredict_module(fs, name, satellite_ids) ==
    [fs EXCEPT ![FileName(name)] =
        File(OpenTruncate(fs, name) \o make_gpredict_module(satellite_ids))]

-----------------------------------------------------------------------------
(* Inputs                                                                  *)

SeqsUpTo(S, n) == UNION {[1..k -> S] : k \in 0..n}

Chars == {"1", "5", ".", "-", "/", "*", "x"}

ExampleCells ==
    { NaN, Txt(<<"1", "4", "5", ".", "8", "2", "5", "*">>), Txt(<<"1", "4", "5", ".", "8", "/", "1", "4", "5", ".", "9", "*">>), Txt(<<"1", "4", "5", ".", "8", "*", "/", "1", "4", "5", ".", "9", "*">>),
      Txt(<<"1", "4", "5", "-", "1", "5", "0">>), Txt(<<"4", "3", "5", ".", "1", "-", "4", "3", "5", ".", "2">>), Txt(<<"1", "4", "5", ".", "8", "/", "1", "4", "5", ".", "9">>), Txt(<<"1", "/", "x", "*", "/", "5", "*">>) }

ParseCells == {Txt(s) : s \in SeqsUpTo(Chars, MaxCellLen)} \cup ExampleCells

BandFloats ==
    { Num(1430, 1), Num(1439, 1), Num(1440, 1), Num(1450, 1), Num(145825, 3), Num(1460, 1),
      Num(1480, 1), Num(1481, 1), Num(1490, 1), Num(1500, 1), Num(4199, 1),
      Num(4200, 1), Num(4350, 1), Num(4500, 1), Num(4501, 1), Num(0 - 1460, 1),
      NaN }

BandInputs ==
    BandFloats \cup {FrequencyRange(a, b) : a \in BandFloats, b \in BandFloats}

Row(norad, sat, status, mode, up, down, beacon) ==
    [norad_id |-> norad, satnogs_id |-> sat, status |-> status, mode |-> mode,
     uplink |-> up, downlink |-> down, beacon |-> beacon]

SatRow(sat, status) == [sat_id |-> sat, status |-> status]

FrequencyTriples ==
    { <<NaN, NaN, NaN>>, <<NaN, Txt(<<"x">>), Txt(<<"1", "/", "5">>)>>,
      <<Txt(<<"4", "3", "5">>), NaN, NaN>>, <<NaN, NaN, Txt(<<"1", "-", "5">>)>> }

FilterRows ==
    { Row(Id(7530), sat, st, Txt(FM), f[1], f[2], f[3]) :
        sat \in {NaN, Id(99), Id(98)},
        st \in {"active", "operational", "inactive"},
        f \in FrequencyTriples }

FilterSecTables ==
    SeqsUpTo({SatRow(Id(i), st) : i \in {99, 98}, st \in {"alive", "dead"}}, MaxSecRows)

Modes == { NaN, Txt(FM), Txt(<<"f", "m">>), Txt(<<"F", "M", "/", "D", "i", "g", "i", "p", "e", "a", "t", "e", "r">>), Txt(APRS) }

Beacons == { NaN, Txt(<<"1", "4", "5", ".", "8", "2", "5", "*">>), Txt(<<"4", "3", "5", "-", "4", "3", "8">>), Txt(<<"1", "4", "5", "-", "1", "5", "0">>) }

ScenarioRow == Row(Id(7530), Id(99), "active", Txt(FM), NaN, NaN, Txt(<<"1", "4", "5", ".", "8", "2", "5", "*">>))

GroupRows ==
    { Row(Id(7530), sat, "active", m, Txt(<<"4", "3", "5">>), NaN, b) :
        sat \in {Id(99), Id(98)}, m \in Modes, b \in Beacons }
    \cup {ScenarioRow}

GroupSecTables ==
    { <<SatRow(Id(99), "alive")>>, <<SatRow(Id(98), "dead"), SatRow(Id(99), "alive")>> }

DedupRows ==
    { Row(n, Id(99), "active", m, NaN, NaN, Txt(<<"1", "4", "5", ".", "8", "2", "5", "*">>)) :
        n \in {NaN, Id(7530), Id(25544)}, m \in {Txt(FM), Txt(APRS)} }

ModuleNames == {"AMSAT_All_Beacons", "AMSAT_All_Repeaters", "AMSAT_All_Digi"}

ModuleFiles == {FileName(n) : n \in ModuleNames}

AllFiles == ModuleFiles \cup {"Other.mod"}

OldFile == File(<<"old">>)

IdSeqs == SeqsUpTo({Id(7530), Id(25544)}, MaxIds)

NoCall == [kind |-> "none"]

-----------------------------------------------------------------------------
(* main(): one run                                                         *)

InitRun(tables, secs, fileStates) ==
    /\ pc = "fetch_amsat"
    /\ \E t \in tables, u \in secs : remote = [amsat |-> t, satnogs |-> u]
    /\ files \in fileStates
    /\ amsat_db = <<>>
    /\ satnogs_db = <<>>
    /\ satnogs_alive_ids = {}
    /\ active_db = <<>>
    /\ selected = [all_beacons |-> <<>>, all_fm |-> <<>>, all_digi |-> <<>>]
    /\ written = <<>>
    /\ responses = [amsat |-> 0, satnogs |-> 0]
    /\ log = <<>>
    /\ arg = NoCall
    /\ ret = NoCall

HttpCodes == {200, 404, 500}

RaisesForServerError(code) == 500 <= code /\ code < 600

\* Response.raise_for_status() raises HTTPError
RaisesForStatus(code) == 400 <= code /\ code < 600

\* session.get(amsat); raise_for_status(); read_csv
FetchAmsat ==
    /\ pc = "fetch_amsat"
    /\ \E code \in HttpCodes :
        /\ ~RaisesForStatus(code)
        /\ responses' = [responses EXCEPT !.amsat = code]
    /\ amsat_db' = remote.amsat
    /\ pc' = "map"
    /\ UNCHANGED <<remote, satnogs_db, satnogs_alive_ids, active_db, selected,
                   files, written, log, arg, ret>>

FetchAmsatFails ==
    /\ pc = "fetch_amsat"
    /\ \E code \in HttpCodes :
        /\ RaisesForStatus(code)
        /\ responses' = [responses EXCEPT !.amsat = code]
    /\ pc' = "error"
    /\ ret' = Raised("HTTPError")
    /\ UNCHANGED <<remote, amsat_db, satnogs_db, satnogs_alive_ids, active_db,
                   selected, files, written, log, arg>>

\* for c in FREQUENCY_COLUMNS: amsat_db[c] = amsat_db[c].map(active_frequency)
MapFrequencies ==
    /\ pc = "map"
    /\ IF MapRaises(amsat_db)
       THEN /\ pc' = "error"
            /\ ret' = Raised("ValueError")
            /\ UNCHANGED <<amsat_db, log>>
       ELSE /\ pc' = "fetch_satnogs"
            /\ amsat_db' = MapColumns(amsat_db, 1)
            /\ log' = log \o MapWarnings(amsat_db, 1)
            /\ UNCHANGED ret
    /\ UNCHANGED <<remote, satnogs_db, satnogs_alive_ids, active_db, selected,
                   files, written, responses, arg>>

\* session.get(satnogs); raise_for_status(); read_csv
FetchSatnogs ==
    /\ pc = "fetch_satnogs"
    /\ \E code \in HttpCodes :
        /\ ~RaisesForStatus(code)
        /\ responses' = [responses EXCEPT !.satnogs = code]
    /\ satnogs_db' = remote.satnogs
    /\ pc' = "filter"
    /\ UNCHANGED <<remote, amsat_db, satnogs_alive_ids, active_db, selected,
                   files, written, log, arg, ret>>

FetchSatnogsFails ==
    /\ pc = "fetch_satnogs"
    /\ \E code \in HttpCodes :
        /\ RaisesForStatus(code)
        /\ responses' = [responses EXCEPT !.satnogs = code]
    /\ pc' = "error"
    /\ ret' = Raised("HTTPError")
    /\ UNCHANGED <<remote, amsat_db, satnogs_db, satnogs_alive_ids, active_db,
                   selected, files, written, log, arg>>

\* the alive set, the mask and the selection get_active_satellites returns
Filter ==
    /\ pc = "filter"
    /\ satnogs_alive_ids' = AliveIds(satnogs_db)
    /\ LET Keep(r) == Retained(r, AliveIds(satnogs_db))
       IN  active_db' = SelectSeq(amsat_db, Keep)
    /\ pc' = "beacons"
    /\ UNCHANGED <<remote, amsat_db, satnogs_db, selected, files, written,
                   responses, log, arg, ret>>

\* all_beacons = active_db[is_vu(active_db.beacon)]; save "AMSAT_All_Beacons"
WriteBeacons ==
    /\ pc = "beacons"
    /\ LET all_beacons == SelectSeq(active_db, IsBeaconRow)
       IN  /\ selected' = [selected EXCEPT !.all_beacons = all_beacons]
           /\ files' = save_gpredict_module(files, "AMSAT_All_Beacons",
                                            ModuleIds(all_beacons))
    /\ written' = Append(written, "AMSAT_All_Beacons")
    /\ pc' = "repeaters"
    /\ UNCHANGED <<remote, amsat_db, satnogs_db, satnogs_alive_ids, active_db,
                   responses, log, arg, ret>>

WriteRepeatersAsDigi ==
    /\ pc = "repeaters"
    /\ LET all_fm == SelectSeq(active_db, IsFmRow)
       IN  /\ selected' = [selected EXCEPT !.all_fm = all_fm]
           /\ files' = save_gpredict_module(files, "AMSAT_All_Digi", ModuleIds(all_fm))
    /\ written' = Append(written, "AMSAT_All_Digi")
    /\ pc' = "digi"
    /\ UNCHANGED <<remote, amsat_db, satnogs_db, satnogs_alive_ids, active_db,
                   responses, log, arg, ret>>

\* all_fm = active_db[mode contains "FM"]; save "AMSAT_All_Repeaters"
WriteRepeaters ==
    /\ pc = "repeaters"
    /\ LET all_fm == SelectSeq(active_db, IsFmRow)
       IN  /\ selected' = [selected EXCEPT !.all_fm = all_fm]
           /\ files' = save_gpredict_module(files, "AMSAT_All_Repeaters",
                                            ModuleIds(all_fm))
    /\ written' = Append(written, "AMSAT_All_Repeaters")
    /\ pc' = "digi"
    /\ UNCHANGED <<remote, amsat_db, satnogs_db, satnogs_alive_ids, active_db,
                   responses, log, arg, ret>>

\* all_digi = active_db[mode contains "APRS" | "Digipeater"]; save "AMSAT_All_Digi"
WriteDigi ==
    /\ pc = "digi"
    /\ LET all_digi == SelectSeq(active_db, IsDigiRow)
       IN  /\ selected' = [selected EXCEPT !.all_digi = all_digi]
           /\ files' = save_gpredict_module(files, "AMSAT_All_Digi",
                                            ModuleIds(all_digi))
    /\ written' = Append(written, "AMSAT_All_Digi")
    /\ pc' = "done"
    /\ UNCHANGED <<remote, amsat_db, satnogs_db, satnogs_alive_ids, active_db,
                   responses, log, arg, ret>>

Next ==
    \/ FetchAmsat
    \/ FetchAmsatFails
    \/ MapFrequencies
    \/ FetchSatnogs
    \/ FetchSatnogsFails
    \/ Filter
    \/ WriteBeacons
    \/ WriteRepeaters
    \/ WriteDigi

FileStates == [AllFiles -> {Absent, OldFile}]

Init == InitRun(SeqsUpTo(GroupRows, MaxGroupRows), GroupSecTables, FileStates)

Spec == Init /\ [][Next]_vars

InitFilter ==
    InitRun(SeqsUpTo(FilterRows, MaxFilterRows), FilterSecTables,
            {[f \in AllFiles |-> Absent]})

SpecFilter == InitFilter /\ [][Next]_vars

InitDedup ==
    InitRun(SeqsUpTo(DedupRows, MaxDedupRows), {<<SatRow(Id(99), "alive")>>},
            {[f \in AllFiles |-> OldFile]})

SpecDedup == InitDedup /\ [][Next]_vars

-----------------------------------------------------------------------------
(* The pure functions, called on their own                                 *)

InitCall(args, fileStates) ==
    /\ pc = "call"
    /\ arg \in args
    /\ ret = NoCall
    /\ remote = [amsat |-> <<>>, satnogs |-> <<>>]
    /\ files \in fileStates
    /\ amsat_db = <<>>
    /\ satnogs_db = <<>>
    /\ satnogs_alive_ids = {}
    /\ active_db = <<>>
    /\ selected = [all_beacons |-> <<>>, all_fm |-> <<>>, all_digi |-> <<>>]
    /\ written = <<>>
    /\ responses = [amsat |-> 0, satnogs |-> 0]
    /\ log = <<>>

CallActiveFrequency ==
    /\ pc = "call"
    /\ ret' = active_frequency(arg)
    /\ log' = log \o active_frequency(arg).warned
    /\ pc' = "return"
    /\ UNCHANGED <<remote, amsat_db, satnogs_db, satnogs_alive_ids, active_db,
                   selected, files, written, responses, arg>>

SpecParse == InitCall(ParseCells, {[f \in AllFiles |-> Absent]}) /\ [][CallActiveFrequency]_vars

CallBand ==
    /\ pc = "call"
    /\ ret' = [is_2m |-> is_2m(arg), is_70cm |-> is_70cm(arg), is_vu |-> is_vu(arg)]
    /\ pc' = "return"
    /\ UNCHANGED <<remote, amsat_db, satnogs_db, satnogs_alive_ids, active_db,
                   selected, files, written, responses, log, arg>>

SpecBand == InitCall(BandInputs, {[f \in AllFiles |-> Absent]}) /\ [][CallBand]_vars

InitWriter ==
    InitCall({NoCall}, {[f \in AllFiles |-> Absent], [f \in AllFiles |-> OldFile]})

\* save_gpredict_module(name, GPREDICT_MODULE_DEST, ids), called repeatedly
Save ==
    /\ pc = "call"
    /\ Len(written) < MaxSaves
    /\ \E name \in ModuleNames, ids \in IdSeqs :
        /\ files' = save_gpredict_module(files, name, ids)
        /\ arg' = [kind |-> "save", name |-> name, ids |-> ids]
        /\ written' = Append(written, name)
    /\ UNCHANGED <<pc, remote, amsat_db, satnogs_db, satnogs_alive_ids, active_db,
                   selected, responses, log, ret>>

SpecWriter == InitWriter /\ [][Save]_vars

-----------------------------------------------------------------------------
(* What the specification says, stated apart from the code                 *)

\* the text of a cell
CellText(c) == IF c = NaN THEN <<"n", "a", "n">> ELSE c.s

Unsigned(s) == IF Len(s) > 0 /\ s[1] = "-" THEN Tail(s) ELSE s

\* s writes a real number: an optional sign, digits, at most one point
IsNumeral(s) ==
    LET b == Unsigned(s)
    IN  /\ \A i \in 1..Len(b) : IsDigit(b[i]) \/ b[i] = "."
        /\ Cardinality({i \in 1..Len(b) : b[i] = "."}) <= 1
        /\ \E i \in 1..Len(b) : IsDigit(b[i])

\* the number a numeral writes
NumeralValue(s) ==
    LET b == Unsigned(s)
        frac == IF \E i \in 1..Len(b) : b[i] = "."
                THEN Len(b) - (CHOOSE i \in 1..Len(b) : b[i] = ".")
                ELSE 0
        mag == DigitsValue(SelectSeq(b, IsDigit))
    IN  Num(IF b = s THEN mag ELSE 0 - mag, frac)

ParsedNumber(s) ==
    IF s = <<"n", "a", "n">> THEN NaN
    ELSE IF IsNumeral(s) THEN NumeralValue(s)
    ELSE NaN

\* positions of the stars that end a '/'-separated option
StarEnds(t) ==
    {i \in 1..Len(t) : t[i] = "*" /\ (i = Len(t) \/ t[i + 1] = "/")}

Least(S) == CHOOSE i \in S : \A j \in S : i <= j

\* the first option that ends in a star, without the star
FirstActiveOption(t) ==
    LET i == Least(StarEnds(t))
        slashes == {j \in 1..(i - 1) : t[j] = "/"}
        from == IF slashes = {} THEN 1
                ELSE (CHOOSE j \in slashes : \A k \in slashes : k <= j) + 1
    IN  SubSeq(t, from, i - 1)

StripStar(t) == IF Len(t) > 0 /\ t[Len(t)] = "*" THEN SubSeq(t, 1, Len(t) - 1) ELSE t

FirstHyphen(t) == Least({i \in 1..Len(t) : t[i] = "-"})

SpecifiedParse(c) ==
    LET t == CellText(c)
    IN  IF \E i \in 1..Len(t) : t[i] = "-"
        THEN LET a == SubSeq(t, 1, FirstHyphen(t) - 1)
                 b == SubSeq(t, FirstHyphen(t) + 1, Len(t))
             IN  IF IsNumeral(a) /\ IsNumeral(b)
                 THEN FrequencyRange(NumeralValue(a), NumeralValue(b))
                 ELSE NaN
        ELSE IF ~\E i \in 1..Len(t) : t[i] = "/" THEN ParsedNumber(StripStar(t))
        ELSE IF StarEnds(t) = {} THEN NaN
        ELSE ParsedNumber(FirstActiveOption(t))

\* the text handed to the number parser is no number
ParseFailure(c) ==
    LET t == CellText(c)
    IN  IF \E i \in 1..Len(t) : t[i] = "-"
        THEN ~(IsNumeral(SubSeq(t, 1, FirstHyphen(t) - 1))
               /\ IsNumeral(SubSeq(t, FirstHyphen(t) + 1, Len(t))))
        ELSE IF ~\E i \in 1..Len(t) : t[i] = "/"
        THEN StripStar(t) # <<"n", "a", "n">> /\ ~IsNumeral(StripStar(t))
        ELSE StarEnds(t) # {} /\ ~IsNumeral(FirstActiveOption(t))

\* lo <= v <= hi for a number v, false for a missing one
Within(v, lo, hi) ==
    /\ v.kind = "float"
    /\ lo * Pow10(v.e) <= v.m
    /\ v.m <= hi * Pow10(v.e)

InBand(v, lo, hi) ==
    IF v.kind = "range" THEN Within(v.start, lo, hi) /\ Within(v.stop, lo, hi)
    ELSE Within(v, lo, hi)

AfterFilter == pc \in {"beacons", "repeaters", "digi", "done"}

\* the list after SATELLITES= in a module text, as numbers
SatellitesOf(text) ==
    LET middle == SubSeq(text, 4, Len(text) - 4)
        parts == Split(middle, ";")
    IN  IF middle = <<>> THEN <<>>
        ELSE [k \in 1..Len(parts) |-> DigitsValue(parts[k])]

\* a module text: the three fixed lines around a list of plain decimal numbers
WellFormedModule(text) ==
    /\ Len(text) >= 7
    /\ SubSeq(text, 1, 3) = <<"[GLOBAL]", "\n", "SATELLITES=">>
    /\ SubSeq(text, Len(text) - 3, Len(text)) = <<"\n", "QTHFILE=", "Home.qth", "\n">>
    /\ LET middle == SubSeq(text, 4, Len(text) - 4)
           parts == Split(middle, ";")
       IN  middle # <<>> =>
               \A k \in 1..Len(parts) :
                   /\ Len(parts[k]) > 0
                   /\ AllDigits(parts[k])
                   /\ (Len(parts[k]) > 1 => parts[k][1] # "0")

FirstIndex(seq, v) == Least({i \in 1..Len(seq) : seq[i] = v})

\* ids is what first-seen deduplication without nulls makes of norads
FirstSeenOrder(ids, norads) ==
    /\ \A i, j \in 1..Len(ids) : i # j => ids[i] # ids[j]
    /\ \A i \in 1..Len(ids) : \E k \in 1..Len(norads) : norads[k] = Id(ids[i])
    /\ \A k \in 1..Len(norads) :
           norads[k] # NaN => \E i \in 1..Len(ids) : norads[k] = Id(ids[i])
    /\ \A i, j \in 1..Len(ids) :
           i < j => FirstIndex(norads, Id(ids[i])) < FirstIndex(norads, Id(ids[j]))

ModuleOf(name) == files[FileName(name)]

-----------------------------------------------------------------------------
(* Claims                                                                  *)

\* C1: the filter retains a primary row if and only if its status is "active"
\* or "operational", its satnogs_id is the sat_id of an alive secondary row,
\* and one of its three frequency cells is non-missing after parsing; a row
\* whose satnogs_id is missing is excluded.
ClaimedRetained(r) ==
    /\ r.status \in {"active", "operational"}
    /\ r.satnogs_id # NaN
    /\ \E i \in 1..Len(satnogs_db) :
           satnogs_db[i].status = "alive" /\ satnogs_db[i].sat_id = r.satnogs_id
    /\ \E c \in {"uplink", "downlink", "beacon"} : r[c] # NaN

C1_RetainedIffAllThree ==
    AfterFilter => active_db = SelectSeq(amsat_db, ClaimedRetained)

\* C8: the alive set is exactly the set of sat_id values of the secondary rows
\* whose status is "alive", with nothing standing for the other rows.
C8_AliveSetExact ==
    AfterFilter =>
        satnogs_alive_ids =
            {satnogs_db[i].sat_id : i \in {k \in 1..Len(satnogs_db) :
                                              satnogs_db[k].status = "alive"}}

\* C2: active_frequency returns the specified parse of every cell: a range for
\* two numbers around the first hyphen, the number left after stripping one
\* trailing star of a single option, the first starred option of several, and
\* "missing" wherever that text is no number or no option is starred.
C2_ParseAsSpecified ==
    pc = "return" =>
        /\ ret.value = SpecifiedParse(arg)
        /\ (arg = Txt(<<"1", "4", "5", ".", "8", "2", "5", "*">>) => ret.value = Num(145825, 3))
        /\ (arg = Txt(<<"1", "4", "5", ".", "8", "/", "1", "4", "5", ".", "9", "*">>) => ret.value = Num(1459, 1))
        /\ (arg = Txt(<<"1", "4", "5", ".", "8", "/", "1", "4", "5", ".", "9">>) => ret.value = NaN)

C2_Witness ==
    /\ pc = "return"
    /\ arg = Txt(<<"1", "4", "5", ".", "8", "*", "/", "1", "4", "5", ".", "9", "*">>)
    /\ ret.value = Num(1458, 1)

\* C3: active_frequency raises nothing: every cell gives a number, a range or
\* "missing", and every parse failure gives "missing" with one warning logged.
C3_NeverRaises ==
    pc = "return" =>
        /\ ret.raised = "none"
        /\ ret.value.kind \in {"float", "range", "nan"}
        /\ (ParseFailure(arg) => ret.value = NaN /\ Len(ret.warned) = 1 /\ log = ret.warned)
        /\ (~ParseFailure(arg) => log = <<>>)

C3_Witness ==
    /\ pc = "return"
    /\ arg = Txt(<<"1", "/", "*">>)
    /\ ret.value = NaN
    /\ Len(log) = 1

\* C4: a frequency is in 2m iff 144 <= f <= 148 and in 70cm iff 420 <= f <= 450,
\* is_vu is their disjunction, a range is in a band iff both its endpoints are,
\* and a missing value is in no band.
C4_BandContainment ==
    pc = "return" =>
        /\ ret.is_2m = InBand(arg, 144, 148)
        /\ ret.is_70cm = InBand(arg, 420, 450)
        /\ ret.is_vu = (InBand(arg, 144, 148) \/ InBand(arg, 420, 450))
        /\ (arg = NaN => ~ret.is_vu)
        /\ (arg = Num(146, 0) => ret.is_2m)
        /\ (arg = Num(149, 0) => ~ret.is_2m)
        /\ (arg = Num(435, 0) => ret.is_70cm)
        /\ (arg = FrequencyRange(Num(145, 0), Num(150, 0)) => ~ret.is_2m)

C4_Witness ==
    /\ pc = "return"
    /\ arg = FrequencyRange(Num(145, 0), Num(150, 0))
    /\ ~ret.is_2m
    /\ ~ret.is_vu

Failed(code) == code # 0 /\ code \notin 200..299

C6_UniqueFirstSeen ==
    /\ \A name \in ModuleNames :
           (\E i \in 1..Len(written) : written[i] = name) =>
               /\ ModuleOf(name).exists
               /\ WellFormedModule(ModuleOf(name).text)
    /\ pc \in {"repeaters", "digi", "done"} =>
           FirstSeenOrder(SatellitesOf(ModuleOf("AMSAT_All_Beacons").text),
                          NoradIds(selected.all_beacons))
    /\ pc \in {"digi", "done"} =>
           FirstSeenOrder(SatellitesOf(ModuleOf("AMSAT_All_Repeaters").text),
                          NoradIds(selected.all_fm))
    /\ pc = "done" =>
           FirstSeenOrder(SatellitesOf(ModuleOf("AMSAT_All_Digi").text),
                          NoradIds(selected.all_digi))
    /\ (/\ pc = "done"
        /\ NoradIds(selected.all_beacons) = <<Id(25544), Id(25544), NaN, Id(7530)>>)
           => SatellitesOf(ModuleOf("AMSAT_All_Beacons").text) = <<25544, 7530>>

C6_Witness ==
    /\ pc = "done"
    /\ NoradIds(selected.all_beacons) = <<Id(25544), Id(25544), NaN, Id(7530)>>
    /\ SatellitesOf(ModuleOf("AMSAT_All_Beacons").text) = <<25544, 7530>>

ExpectedTwoIds ==
    <<"[GLOBAL]", "\n", "SATELLITES=", "7", "5", "3", "0", ";", "2", "5", "5", "4", "4",
      "\n", "QTHFILE=", "Home.qth", "\n">>

\* C7: a save leaves the module's file holding exactly the three lines, the ids
\* as integers joined by ';' in the order given, whatever the file held before;
\* no other file changes; saving the same inputs again changes nothing; an
\* empty id sequence gives the line "SATELLITES=".
C7_SaveStep ==
    LET text == files'[FileName(arg'.name)].text
    IN  /\ files'[FileName(arg'.name)].exists
        /\ WellFormedModule(text)
        /\ SatellitesOf(text) = [k \in 1..Len(arg'.ids) |-> arg'.ids[k].n]
        /\ (arg'.ids = <<>> =>
                text = <<"[GLOBAL]", "\n", "SATELLITES=", "\n", "QTHFILE=", "Home.qth", "\n">>)
        /\ (arg'.ids = <<Id(7530), Id(25544)>> => text = ExpectedTwoIds)
        /\ \A f \in AllFiles : f # FileName(arg'.name) => files'[f] = files[f]
        /\ (arg' = arg => files' = files)

C7_SaveWritesExactly == [][written' # written => C7_SaveStep]_vars

C7_Witness ==
    /\ Len(written) = 2
    /\ written[1] = written[2]
    /\ arg.ids = <<Id(7530), Id(25544)>>
    /\ files["Other.mod"] = OldFile
    /\ ModuleOf(arg.name).text = ExpectedTwoIds

HasFM(mode) ==
    /\ mode # NaN
    /\ \E i \in 1..(Len(mode.s) - 1) : mode.s[i] = "F" /\ mode.s[i + 1] = "M"

HasDigi(mode) ==
    /\ mode # NaN
    /\ \/ \E i \in 1..(Len(mode.s) - 3) : SubSeq(mode.s, i, i + 3) = <<"A", "P", "R", "S">>
       \/ \E i \in 1..(Len(mode.s) - 9) : SubSeq(mode.s, i, i + 9) = <<"D", "i", "g", "i", "p", "e", "a", "t", "e", "r">>

BeaconInVU(r) == InBand(r.beacon, 144, 148) \/ InBand(r.beacon, 420, 450)
ModeHasFM(r) == HasFM(r.mode)
ModeHasDigi(r) == HasDigi(r.mode)

IsScenario ==
    remote = [amsat |-> <<ScenarioRow>>, satnogs |-> <<SatRow(Id(99), "alive")>>]

WriteOrder == <<"AMSAT_All_Beacons", "AMSAT_All_Repeaters", "AMSAT_All_Digi">>

\* C10: a file is written only after both retrievals succeeded and the active
\* set was computed, so a run with a failed retrieval changes no file; the
\* files are written in the order Beacons, Repeaters, Digi, each at most once.
C10_WriteStep ==
    /\ responses = [amsat |-> 200, satnogs |-> 200]
    /\ AfterFilter
    /\ Len(written) < 3
    /\ written' = Append(written, WriteOrder[Len(written) + 1])
    /\ \A f \in AllFiles : f # FileName(WriteOrder[Len(written) + 1]) => files'[f] = files[f]

C10_WritesOrdered ==
    /\ [][(files' # files \/ written' # written) => C10_WriteStep]_vars
    /\ [](written = SubSeq(WriteOrder, 1, Len(written)))
    /\ [](pc = "error" => written = <<>>)

C10_Witness ==
    /\ pc = "done"
    /\ written = WriteOrder
    /\ \A f \in ModuleFiles : files[f] # OldFile /\ files[f].exists
    /\ files["Other.mod"] = OldFile

====
